---- MODULE Spec2Model ----
(***************************************************************************)
(* Model of cmd/status/metrics_network.go: the per-interface throughput    *)
(* sampler (Collector.collectNetwork) and the proxy detection cascade      *)
(* (collectProxy and its three detectors).                                 *)
(*                                                                         *)
(* Strings are sequences of one-character strings, so that prefix tests,   *)
(* trimming, case folding, splitting and sorting are computed character by *)
(* character as the Go code computes them.                                 *)
(***************************************************************************)
EXTENDS Integers, Sequences, FiniteSets, TLC

VARIABLES
    lastNetAt,      \* Collector.lastNetAt; 0 is time.Time's zero value
    prevNet,        \* Collector.prevNet: interface name -> stored counters
    rxHistoryBuf,   \* Collector.rxHistoryBuf, oldest sample first
    txHistoryBuf,   \* Collector.txHistoryBuf, oldest sample first
    netCall,        \* the last collectNetwork call: its inputs and the state it started from
    netRet,         \* what the last collectNetwork call returned
    proxyIn,        \* the inputs of the proxy detector under study
    proxyOut        \* what the detector returned for proxyIn

vars == <<lastNetAt, prevNet, rxHistoryBuf, txHistoryBuf, netCall, netRet, proxyIn, proxyOut>>

netVars == <<lastNetAt, prevNet, rxHistoryBuf, txHistoryBuf, netCall, netRet>>

proxyVars == <<proxyIn, proxyOut>>

(***************************************************************************)
(* Bounds of the model.                                                    *)
(***************************************************************************)
\* Timestamps handed to collectNetwork range over 1..MaxTime.
MaxTime == 3

\* Cumulative byte counters reported by the counter source range over 0..MaxBytes.
MaxBytes == 1

\* At most MaxEnvSet of the six proxy variables are set in an environment.
MaxEnvSet == 2

\* A proxy dictionary has at most MaxLines lines between its braces.
MaxLines == 3

(***************************************************************************)
(* Program constants.                                                      *)
(***************************************************************************)
\* BytesRecv and BytesSent are unsigned 64-bit; their arithmetic wraps.  The
\* model keeps the wrap at a width of 16 bits.
CounterMod == 65536

\* "/ 1024.0 / 1024.0": bytes per megabyte.
BytesPerMB == 1048576

\* len(result) > 3: the number of interfaces kept.
TopN == 3

\* Capacity of the trend ring buffers; the model keeps the latest sample.
HistoryCap == 1

(***************************************************************************)
(* Strings.                                                                *)
(***************************************************************************)
\* The characters of the model in ASCII order; a character's position is its order.
Ascii ==
    << "\n", " ", "#", "+", "-", ".", "/",
       "0", "1", "2", "3", "4", "5", "6", "7", "8", "9",
       ":", "<", ">", "?", "@",
       "A", "B", "C", "D", "E", "F", "G", "H", "I", "J", "K", "L", "M",
       "N", "O", "P", "Q", "R", "S", "T", "U", "V", "W", "X", "Y", "Z",
       "a", "b", "c", "d", "e", "f", "g", "h", "i", "j", "k", "l", "m",
       "n", "o", "p", "q", "r", "s", "t", "u", "v", "w", "x", "y", "z",
       "{", "}" >>

Chars == {Ascii[i] : i \in 1..Len(Ascii)}

OrdOf == [c \in Chars |-> CHOOSE i \in 1..Len(Ascii) : Ascii[i] = c]

Ord(c) == OrdOf[c]

IsUpper(c) == Ord(c) >= Ord("A") /\ Ord(c) <= Ord("Z")

IsLetter(c) == IsUpper(c) \/ (Ord(c) >= Ord("a") /\ Ord(c) <= Ord("z"))

IsDigit(c) == Ord(c) >= Ord("0") /\ Ord(c) <= Ord("9")

IsSpace(c) == c = " " \/ c = "\n"

LowerOf ==
    [c \in Chars |-> IF IsUpper(c) THEN Ascii[Ord(c) - Ord("A") + Ord("a")] ELSE c]

\* strings.ToLower
ToLower(s) == [i \in 1..Len(s) |-> LowerOf[s[i]]]

\* strings.HasPrefix
HasPrefix(s, prefix) ==
    Len(s) >= Len(prefix) /\ SubSeq(s, 1, Len(prefix)) = prefix

\* strings.TrimPrefix
TrimPrefix(s, prefix) ==
    IF HasPrefix(s, prefix) THEN SubSeq(s, Len(prefix) + 1, Len(s)) ELSE s

\* strings.TrimSpace
TrimSpace(s) ==
    LET keep == {i \in 1..Len(s) : ~IsSpace(s[i])}
    IN  IF keep = {} THEN <<>>
        ELSE LET lo == CHOOSE i \in keep : \A j \in keep : i <= j
                 hi == CHOOSE i \in keep : \A j \in keep : i >= j
             IN  SubSeq(s, lo, hi)

\* strings.Index: the first position at which sub occurs in s, 0 if none
\* (Go's -1; positions here are 1-based).
Index(s, sub) ==
    LET at == {i \in 1..(Len(s) - Len(sub) + 1) : SubSeq(s, i, i + Len(sub) - 1) = sub}
    IN  IF at = {} THEN 0 ELSE CHOOSE i \in at : \A j \in at : i <= j

\* strings.LastIndex
LastIndex(s, sub) ==
    LET at == {i \in 1..(Len(s) - Len(sub) + 1) : SubSeq(s, i, i + Len(sub) - 1) = sub}
    IN  IF at = {} THEN 0 ELSE CHOOSE i \in at : \A j \in at : i >= j

\* strings.Contains
Contains(s, sub) == Index(s, sub) # 0

\* Byte-wise string order, as sort.Strings uses it.
StrLess(a, b) ==
    \/ /\ Len(a) < Len(b)
       /\ SubSeq(b, 1, Len(a)) = a
    \/ \E i \in 1..Len(a) :
        /\ i <= Len(b)
        /\ SubSeq(a, 1, i - 1) = SubSeq(b, 1, i - 1)
        /\ Ord(a[i]) < Ord(b[i])

(***************************************************************************)
(* Interface names used as inputs.                                         *)
(***************************************************************************)
en0 == <<"e", "n", "0">>
en1 == <<"e", "n", "1">>
en2 == <<"e", "n", "2">>
en3 == <<"e", "n", "3">>
Lo0 == <<"L", "o", "0">>
AP1 == <<"A", "P", "1">>
utun1 == <<"u", "t", "u", "n", "1">>
utun3 == <<"u", "t", "u", "n", "3">>
Tun0 == <<"T", "u", "n", "0">>

(***************************************************************************)
(* Noise filter.                                                           *)
(***************************************************************************)
noiseList ==
    << <<"l", "o">>, <<"a", "w", "d", "l">>, <<"u", "t", "u", "n">>,
       <<"l", "l", "w">>, <<"b", "r", "i", "d", "g", "e">>, <<"g", "i", "f">>,
       <<"s", "t", "f">>, <<"x", "h", "c">>, <<"a", "n", "p", "i">>, <<"a", "p">> >>

\* isNoiseInterface without the lower-casing.
isNoiseInterfaceCaseSensitive(name) ==
    \E i \in 1..Len(noiseList) : HasPrefix(name, noiseList[i])

isNoiseInterface(name) ==
    LET lower == ToLower(name)
    IN  \E i \in 1..Len(noiseList) : HasPrefix(lower, noiseList[i])

(***************************************************************************)
(* Rate engine: Collector.collectNetwork.                                  *)
(*                                                                         *)
(* A snapshot (net.IOCounters) is a map from interface name to             *)
(* [BytesRecv, BytesSent]; the order in which the source enumerates the    *)
(* interfaces is left open and shows only in how sort.Slice orders ties.   *)
(* A rate is the exact quotient num / den, in MB/s: num in bytes, den in   *)
(* bytes-per-megabyte times seconds.  The interface IP attached to each    *)
(* entry takes no part in filtering, ranking or storing and is left out.   *)
(***************************************************************************)
EmptyMap == [n \in {} |-> 0]

\* now.Sub(c.lastNetAt).Seconds(), replaced by 1 when not positive.
Elapsed(now, last) ==
    LET elapsed == now - last
    IN  IF elapsed <= 0 THEN 1 ELSE elapsed

\* cur.BytesRecv - prev.BytesRecv on unsigned counters.
CounterDelta(cur, prev) == (cur - prev) % CounterMod

\* float64(delta) / 1024.0 / 1024.0 / elapsed
RateMBs(delta, elapsed) == [num |-> delta, den |-> BytesPerMB * elapsed]

\* if rx < 0 { rx = 0 }
ClampRate(r) == IF r.num < 0 THEN [num |-> 0, den |-> r.den] ELSE r

\* The NetworkStatus appended for one interface of the current snapshot.
StatusOf(name, cur, prev, elapsed) ==
    [Name |-> name,
     RxRateMBs |-> ClampRate(RateMBs(CounterDelta(cur.BytesRecv, prev.BytesRecv), elapsed)),
     TxRateMBs |-> ClampRate(RateMBs(CounterDelta(cur.BytesSent, prev.BytesSent), elapsed))]

\* The interfaces of the current snapshot the loop reports: not noise, and
\* with an entry in the stored map.
Reported(stats, prev) ==
    {name \in DOMAIN stats : ~isNoiseInterface(name) /\ name \in DOMAIN prev}

\* The loop's result, before sorting, as a set.
ComputeResult(stats, prev, elapsed) ==
    {StatusOf(name, stats[name], prev[name], elapsed) : name \in Reported(stats, prev)}

\* for _, s := range stats { c.prevNet[s.Name] = s }
StoreSnapshot(prev, stats) ==
    [name \in DOMAIN prev \cup DOMAIN stats |->
        IF name \in DOMAIN stats THEN stats[name] ELSE prev[name]]

\* RxRateMBs + TxRateMBs; every entry of one tick has the same denominator.
Combined(r) == r.RxRateMBs.num + r.TxRateMBs.num

\* SortLess comparing the receive rates alone.
SortLessRxOnly(a, b) == a.RxRateMBs.num > b.RxRateMBs.num

\* The less function handed to sort.Slice.
SortLess(a, b) == Combined(a) > Combined(b)

\* sort.Slice: every order of the entries that the less function admits
\* (sort.Slice is not stable, and the enumeration order is open).
RECURSIVE SortSlice(_)
SortSlice(S) ==
    IF S = {} THEN {<<>>}
    ELSE UNION {{<<x>> \o rest : rest \in SortSlice(S \ {x})} :
                    x \in {y \in S : \A z \in S : ~SortLess(z, y)}}

\* if len(result) > 3 { result = result[:3] }
Truncate(result) ==
    IF Len(result) > TopN THEN SubSeq(result, 1, TopN) ELSE result

RECURSIVE SumRx(_)
SumRx(result) ==
    IF result = <<>> THEN 0 ELSE Head(result).RxRateMBs.num + SumRx(Tail(result))

RECURSIVE SumTx(_)
SumTx(result) ==
    IF result = <<>> THEN 0 ELSE Head(result).TxRateMBs.num + SumTx(Tail(result))

\* RingBuffer.Add: append, overwriting the oldest sample when full.
RingAdd(buf, v) ==
    IF Len(buf) < HistoryCap THEN Append(buf, v) ELSE Append(Tail(buf), v)

\* The record kept of a call: which path it took, its inputs, the state it
\* started from, and what the successful calls before it obtained.
LastOkStats(call) ==
    IF call.kind \in {"warmup", "tick"} THEN call.stats ELSE call.prevOkStats

CallRecord(kind, now, stats) ==
    [kind |-> kind, prevKind |-> netCall.kind, now |-> now, stats |-> stats,
     prevNet0 |-> prevNet, lastNetAt0 |-> lastNetAt,
     okCalls |-> IF kind = "fail" \/ netCall.okCalls >= 2
                 THEN netCall.okCalls ELSE netCall.okCalls + 1,
     prevOkStats |-> LastOkStats(netCall)]

\* CollectNetworkFail with the timestamp stored before the error is returned.
CollectNetworkFailStamps(now) ==
    /\ netCall' = CallRecord("fail", now, EmptyMap)
    /\ netRet' = [result |-> <<>>, err |-> TRUE]
    /\ lastNetAt' = now
    /\ UNCHANGED <<prevNet, rxHistoryBuf, txHistoryBuf>>

\* net.IOCounters fails: return nil, err.
CollectNetworkFail(now) ==
    /\ netCall' = CallRecord("fail", now, EmptyMap)
    /\ netRet' = [result |-> <<>>, err |-> TRUE]
    /\ UNCHANGED <<lastNetAt, prevNet, rxHistoryBuf, txHistoryBuf>>

\* CollectNetworkWarmup without "c.lastNetAt = now".
CollectNetworkWarmupNoStamp(now, stats) ==
    /\ lastNetAt = 0
    /\ prevNet' = StoreSnapshot(prevNet, stats)
    /\ netCall' = CallRecord("warmup", now, stats)
    /\ netRet' = [result |-> <<>>, err |-> FALSE]
    /\ UNCHANGED <<lastNetAt, rxHistoryBuf, txHistoryBuf>>

\* c.lastNetAt.IsZero(): store the baseline, return nil, nil.
CollectNetworkWarmup(now, stats) ==
    /\ lastNetAt = 0
    /\ lastNetAt' = now
    /\ prevNet' = StoreSnapshot(prevNet, stats)
    /\ netCall' = CallRecord("warmup", now, stats)
    /\ netRet' = [result |-> <<>>, err |-> FALSE]
    /\ UNCHANGED <<rxHistoryBuf, txHistoryBuf>>

\* A tick against the stored snapshot.
CollectNetworkTick(now, stats) ==
    /\ lastNetAt # 0
    /\ LET elapsed == Elapsed(now, lastNetAt)
       IN  \E sorted \in SortSlice(ComputeResult(stats, prevNet, elapsed)) :
             LET result == Truncate(sorted)
             IN  /\ netRet' = [result |-> result, err |-> FALSE]
                 /\ rxHistoryBuf' = RingAdd(rxHistoryBuf,
                        [num |-> SumRx(result), den |-> BytesPerMB * elapsed])
                 /\ txHistoryBuf' = RingAdd(txHistoryBuf,
                        [num |-> SumTx(result), den |-> BytesPerMB * elapsed])
    /\ lastNetAt' = now
    /\ prevNet' = StoreSnapshot(prevNet, stats)
    /\ netCall' = CallRecord("tick", now, stats)

\* Every [BytesRecv, BytesSent] with both counters in 0..MaxBytes.
AnyCounters == [BytesRecv : 0..MaxBytes, BytesSent : 0..MaxBytes]

\* Counters with one side quiet.
RecvOnly == {c \in AnyCounters : c.BytesSent = 0}
SentOnly == {c \in AnyCounters : c.BytesRecv = 0}
Busy == {[BytesRecv |-> MaxBytes, BytesSent |-> MaxBytes]}
RecvEdge == {c \in RecvOnly : c.BytesRecv \in {0, MaxBytes}}

\* The snapshots over the interfaces DOMAIN dom: those of `optional` present
\* or absent, the others present, each with counters drawn from dom[name].
Snapshots(dom, optional) ==
    UNION {{stats \in [present -> AnyCounters] :
                \A name \in present : stats[name] \in dom[name]} :
              present \in {p \in SUBSET DOMAIN dom : (DOMAIN dom) \ optional \subseteq p}}

Times == 1..MaxTime

\* Collector as NewCollector leaves it: no baseline, empty map, empty buffers.
NetInit ==
    /\ lastNetAt = 0
    /\ prevNet = EmptyMap
    /\ rxHistoryBuf = <<>>
    /\ txHistoryBuf = <<>>
    /\ netCall = [kind |-> "init", prevKind |-> "init", now |-> 0, stats |-> EmptyMap,
                  prevNet0 |-> EmptyMap, lastNetAt0 |-> 0, okCalls |-> 0,
                  prevOkStats |-> EmptyMap]
    /\ netRet = [result |-> <<>>, err |-> FALSE]

ProxyIdle ==
    /\ proxyIn = [kind |-> "none"]
    /\ proxyOut = [kind |-> "none"]

\* Inputs of Spec: one interface that comes and goes, with any counters, and
\* one noise interface that is always there.
NetDom == [name \in {en0, Lo0} |-> IF name = en0 THEN AnyCounters ELSE Busy]

Init == NetInit /\ ProxyIdle

Next ==
    \/ \E now \in Times : CollectNetworkFail(now) /\ UNCHANGED proxyVars
    \/ \E now \in Times, stats \in Snapshots(NetDom, {en0}) :
          CollectNetworkWarmup(now, stats) /\ UNCHANGED proxyVars
    \/ \E now \in Times, stats \in Snapshots(NetDom, {en0}) :
          CollectNetworkTick(now, stats) /\ UNCHANGED proxyVars

Spec == Init /\ [][Next]_vars

(***************************************************************************)
(* SpecTop: four reported interfaces in every snapshot, so that the        *)
(* ranking has something to cut.  en1 only transmits, en3 stands still.    *)
(***************************************************************************)
TopDom ==
    [name \in {en0, en1, en2, en3} |->
        CASE name = en0 -> RecvOnly
          [] name = en1 -> SentOnly
          [] name = en2 -> RecvEdge
          [] OTHER -> Busy]

TopTimes == {1, 2}

NextTop ==
    \/ \E now \in TopTimes : CollectNetworkFail(now) /\ UNCHANGED proxyVars
    \/ \E now \in TopTimes, stats \in Snapshots(TopDom, {}) :
          CollectNetworkWarmup(now, stats) /\ UNCHANGED proxyVars
    \/ \E now \in TopTimes, stats \in Snapshots(TopDom, {}) :
          CollectNetworkTick(now, stats) /\ UNCHANGED proxyVars

SpecTop == Init /\ [][NextTop]_vars

(***************************************************************************)
(* SpecNoise: interfaces whose names test the noise filter: "Tun0" matches *)
(* no denylist prefix, "Lo0" and "AP1" match one only after case folding.  *)
(***************************************************************************)
NoiseDom ==
    [name \in {Tun0, Lo0, AP1, utun1} |->
        CASE name = AP1 -> SentOnly
          [] name = utun1 -> Busy
          [] OTHER -> RecvOnly]

NextNoise ==
    \/ \E now \in TopTimes : CollectNetworkFail(now) /\ UNCHANGED proxyVars
    \/ \E now \in TopTimes, stats \in Snapshots(NoiseDom, {}) :
          CollectNetworkWarmup(now, stats) /\ UNCHANGED proxyVars
    \/ \E now \in TopTimes, stats \in Snapshots(NoiseDom, {}) :
          CollectNetworkTick(now, stats) /\ UNCHANGED proxyVars

SpecNoise == Init /\ [][NextNoise]_vars

(***************************************************************************)
(* Text mini-parser: parseProxyHost, joinHostPort.                         *)
(*                                                                         *)
(* url.Parse is modelled on the characters of Ascii: letters, digits,      *)
(* + - . : / ? # @ < > { }, space and newline; no square brackets, no       *)
(* percent escapes.                                                        *)
(* A parse yields [ok, host]: ok is "err == nil", host is parsed.Host.     *)
(***************************************************************************)
Colon == <<":">>
Slash == <<"/">>
SlashSlash == <<"/", "/">>
SlashSlashSlash == <<"/", "/", "/">>
SchemeSep == <<":", "/", "/">>
HttpPrefix == <<"h", "t", "t", "p", ":", "/", "/">>
AtSign == <<"@">>
Hash == <<"#">>
Question == <<"?">>
Newline == <<"\n">>
Plus == <<"+">>

\* strings.Cut(s, sep), the part before the separator (all of s if there is none).
Before(s, sep) ==
    LET i == Index(s, sep) IN IF i = 0 THEN s ELSE SubSeq(s, 1, i - 1)

\* url.getScheme: [ok, scheme, rest].
getScheme(rawURL) ==
    LET inScheme(i) ==
            \/ IsLetter(rawURL[i])
            \/ i > 1 /\ (IsDigit(rawURL[i]) \/ rawURL[i] \in {"+", "-", "."})
        stops == {i \in 1..Len(rawURL) : ~inScheme(i)}
    IN  IF stops = {} THEN [ok |-> TRUE, scheme |-> <<>>, rest |-> rawURL]
        ELSE LET i == CHOOSE k \in stops : \A j \in stops : k <= j
             IN  IF rawURL[i] # ":" THEN [ok |-> TRUE, scheme |-> <<>>, rest |-> rawURL]
                 ELSE IF i = 1 THEN [ok |-> FALSE, scheme |-> <<>>, rest |-> <<>>]
                 ELSE [ok |-> TRUE, scheme |-> SubSeq(rawURL, 1, i - 1),
                       rest |-> SubSeq(rawURL, i + 1, Len(rawURL))]

\* url.validOptionalPort: "" or ":" followed by digits.
validOptionalPort(port) ==
    \/ port = <<>>
    \/ /\ port[1] = ":"
       /\ \A i \in 2..Len(port) : IsDigit(port[i])

\* url.parseHost on a host without brackets: the port, if any, is numeric and
\* no character of the host needs escaping.
parseHostOk(host) ==
    /\ LET i == LastIndex(host, Colon)
       IN  i # 0 => validOptionalPort(SubSeq(host, i, Len(host)))
    /\ \A i \in 1..Len(host) :
          IsLetter(host[i]) \/ IsDigit(host[i])
              \/ host[i] \in {"+", "-", ".", ":", "<", ">"}

\* url.validUserinfo
validUserinfo(userinfo) ==
    \A i \in 1..Len(userinfo) :
        IsLetter(userinfo[i]) \/ IsDigit(userinfo[i]) \/ userinfo[i] \in {"+", "-", ".", ":", "@"}

\* url.parseAuthority: [ok, host].
parseAuthority(authority) ==
    LET i == LastIndex(authority, AtSign)
        host == IF i = 0 THEN authority ELSE SubSeq(authority, i + 1, Len(authority))
    IN  IF ~parseHostOk(host) THEN [ok |-> FALSE, host |-> <<>>]
        ELSE IF i # 0 /\ ~validUserinfo(SubSeq(authority, 1, i - 1))
        THEN [ok |-> FALSE, host |-> <<>>]
        ELSE [ok |-> TRUE, host |-> host]

\* url.Parse: [ok, host].
urlParse(rawURL) ==
    LET u == Before(rawURL, Hash)
        sch == getScheme(u)
        rest == Before(sch.rest, Question)
    IN  IF Contains(u, Newline) THEN [ok |-> FALSE, host |-> <<>>]
        ELSE IF ~sch.ok THEN [ok |-> FALSE, host |-> <<>>]
        ELSE IF ~HasPrefix(rest, Slash) /\ sch.scheme # <<>>
        THEN [ok |-> TRUE, host |-> <<>>]
        ELSE IF ~HasPrefix(rest, Slash) /\ Contains(Before(rest, Slash), Colon)
        THEN [ok |-> FALSE, host |-> <<>>]
        ELSE IF (sch.scheme # <<>> \/ ~HasPrefix(rest, SlashSlashSlash))
                /\ HasPrefix(rest, SlashSlash)
        THEN parseAuthority(Before(SubSeq(rest, 3, Len(rest)), Slash))
        ELSE [ok |-> TRUE, host |-> <<>>]

parseProxyHost(raw0) ==
    LET raw == TrimSpace(raw0)
        target == IF ~Contains(raw, SchemeSep) THEN HttpPrefix \o raw ELSE raw
        parsed == urlParse(target)
    IN  IF raw = <<>> THEN <<>>
        ELSE IF ~parsed.ok THEN <<>>
        ELSE IF parsed.host = <<>> THEN <<>>
        ELSE TrimPrefix(parsed.host, AtSign)

\* strconv.Atoi succeeds: an optional sign and then digits only (the strings of
\* the model are too short to leave the range of int).
AtoiOk(s) ==
    LET digits == IF s # <<>> /\ s[1] \in {"+", "-"} THEN Tail(s) ELSE s
    IN  /\ digits # <<>>
        /\ \A i \in 1..Len(digits) : IsDigit(digits[i])

joinHostPort(host0, port0) ==
    LET host == TrimSpace(host0)
        port == TrimSpace(port0)
    IN  IF host = <<>> THEN <<>>
        ELSE IF port = <<>> THEN host
        ELSE IF ~AtoiOk(port) THEN host
        ELSE host \o Colon \o port

(***************************************************************************)
(* Environment detector: collectProxyFromEnv.                              *)
(***************************************************************************)
Disabled == [Enabled |-> FALSE, Type |-> "", Host |-> <<>>]

Socks == <<"s", "o", "c", "k", "s">>

\* envKeys with the catch-all variables examined first.
envKeysAllFirst ==
    <<"all_proxy", "ALL_PROXY", "https_proxy", "HTTPS_PROXY", "http_proxy", "HTTP_PROXY">>

envKeys ==
    <<"https_proxy", "HTTPS_PROXY", "http_proxy", "HTTP_PROXY", "all_proxy", "ALL_PROXY">>

\* The body of the loop for a value that is not blank.
ProxyFromValue(val) ==
    LET proxyType == IF HasPrefix(ToLower(val), Socks) THEN "SOCKS" ELSE "HTTP"
        host == parseProxyHost(val)
    IN  [Enabled |-> TRUE, Type |-> proxyType, Host |-> IF host = <<>> THEN val ELSE host]

\* The loop over envKeys from position i on.
RECURSIVE EnvFrom(_, _)
EnvFrom(getenv, i) ==
    IF i > Len(envKeys) THEN Disabled
    ELSE LET val == TrimSpace(getenv[envKeys[i]])
         IN  IF val = <<>> THEN EnvFrom(getenv, i + 1) ELSE ProxyFromValue(val)

collectProxyFromEnv(getenv) == EnvFrom(getenv, 1)

(***************************************************************************)
(* OS system-proxy query: collectProxyFromScutilOutput.                    *)
(***************************************************************************)
kSOCKSEnable == <<"S", "O", "C", "K", "S", "E", "n", "a", "b", "l", "e">>
kSOCKSProxy == <<"S", "O", "C", "K", "S", "P", "r", "o", "x", "y">>
kSOCKSPort == <<"S", "O", "C", "K", "S", "P", "o", "r", "t">>
kHTTPSEnable == <<"H", "T", "T", "P", "S", "E", "n", "a", "b", "l", "e">>
kHTTPSProxy == <<"H", "T", "T", "P", "S", "P", "r", "o", "x", "y">>
kHTTPSPort == <<"H", "T", "T", "P", "S", "P", "o", "r", "t">>
kHTTPEnable == <<"H", "T", "T", "P", "E", "n", "a", "b", "l", "e">>
kHTTPProxy == <<"H", "T", "T", "P", "P", "r", "o", "x", "y">>
kHTTPPort == <<"H", "T", "T", "P", "P", "o", "r", "t">>
kProxyAutoConfigEnable ==
    <<"P", "r", "o", "x", "y", "A", "u", "t", "o", "C", "o", "n", "f", "i", "g", "E", "n", "a",
      "b", "l", "e">>
kProxyAutoConfigURLString ==
    <<"P", "r", "o", "x", "y", "A", "u", "t", "o", "C", "o", "n", "f", "i", "g", "U", "R", "L",
      "S", "t", "r", "i", "n", "g">>
kProxyAutoDiscoveryEnable ==
    <<"P", "r", "o", "x", "y", "A", "u", "t", "o", "D", "i", "s", "c", "o", "v", "e", "r", "y",
      "E", "n", "a", "b", "l", "e">>
SpaceColon == <<" ", ":">>
One == <<"1">>
SystemProxy == <<"S", "y", "s", "t", "e", "m", " ", "P", "r", "o", "x", "y">>
PacHost == <<"P", "A", "C">>
AutoDiscovery == <<"A", "u", "t", "o", " ", "D", "i", "s", "c", "o", "v", "e", "r", "y">>

\* strings.Split(s, "\n")
RECURSIVE SplitLines(_)
SplitLines(s) ==
    LET i == Index(s, Newline)
    IN  IF i = 0 THEN <<s>>
        ELSE <<SubSeq(s, 1, i - 1)>> \o SplitLines(SubSeq(s, i + 1, Len(s)))

scutilProxyValue(out, key) ==
    LET prefix == key \o SpaceColon
        lines == SplitLines(out)
        hits == {i \in 1..Len(lines) : HasPrefix(TrimSpace(lines[i]), prefix)}
    IN  IF hits = {} THEN <<>>
        ELSE LET i == CHOOSE k \in hits : \A j \in hits : k <= j
             IN  TrimSpace(TrimPrefix(TrimSpace(lines[i]), prefix))

scutilProxyEnabled(out, key) == scutilProxyValue(out, key) = One

\* The result for an enabled SOCKS, HTTPS or HTTP proxy.
HostPortStatus(out, type, hostKey, portKey) ==
    LET host == joinHostPort(scutilProxyValue(out, hostKey), scutilProxyValue(out, portKey))
    IN  [Enabled |-> TRUE, Type |-> type, Host |-> IF host = <<>> THEN SystemProxy ELSE host]

\* The result for an enabled automatic configuration.
PacStatus(out) ==
    LET host == parseProxyHost(scutilProxyValue(out, kProxyAutoConfigURLString))
    IN  [Enabled |-> TRUE, Type |-> "PAC", Host |-> IF host = <<>> THEN PacHost ELSE host]

\* collectProxyFromScutilOutput with HTTPEnable examined before HTTPSEnable.
collectProxyFromScutilOutputHTTPFirst(out) ==
    IF out = <<>> THEN Disabled
    ELSE IF scutilProxyEnabled(out, kSOCKSEnable)
    THEN HostPortStatus(out, "SOCKS", kSOCKSProxy, kSOCKSPort)
    ELSE IF scutilProxyEnabled(out, kHTTPEnable)
    THEN HostPortStatus(out, "HTTP", kHTTPProxy, kHTTPPort)
    ELSE IF scutilProxyEnabled(out, kHTTPSEnable)
    THEN HostPortStatus(out, "HTTPS", kHTTPSProxy, kHTTPSPort)
    ELSE IF scutilProxyEnabled(out, kProxyAutoConfigEnable) THEN PacStatus(out)
    ELSE IF scutilProxyEnabled(out, kProxyAutoDiscoveryEnable)
    THEN [Enabled |-> TRUE, Type |-> "WPAD", Host |-> AutoDiscovery]
    ELSE Disabled

collectProxyFromScutilOutput(out) ==
    IF out = <<>> THEN Disabled
    ELSE IF scutilProxyEnabled(out, kSOCKSEnable)
    THEN HostPortStatus(out, "SOCKS", kSOCKSProxy, kSOCKSPort)
    ELSE IF scutilProxyEnabled(out, kHTTPSEnable)
    THEN HostPortStatus(out, "HTTPS", kHTTPSProxy, kHTTPSPort)
    ELSE IF scutilProxyEnabled(out, kHTTPEnable)
    THEN HostPortStatus(out, "HTTP", kHTTPProxy, kHTTPPort)
    ELSE IF scutilProxyEnabled(out, kProxyAutoConfigEnable) THEN PacStatus(out)
    ELSE IF scutilProxyEnabled(out, kProxyAutoDiscoveryEnable)
    THEN [Enabled |-> TRUE, Type |-> "WPAD", Host |-> AutoDiscovery]
    ELSE Disabled

(***************************************************************************)
(* Active-tunnel heuristic: collectProxyFromTunInterfaces.                 *)
(*                                                                         *)
(* The counter query yields [err, stats], stats the interfaces in the      *)
(* order the source enumerates them.                                       *)
(***************************************************************************)
Utun == <<"u", "t", "u", "n">>
Tun == <<"t", "u", "n">>

\* The names appended to activeTun, in enumeration order.
RECURSIVE ActiveTun(_)
ActiveTun(stats) ==
    IF stats = <<>> THEN <<>>
    ELSE LET st == Head(stats)
             lower == ToLower(st.Name)
         IN  IF /\ HasPrefix(lower, Utun) \/ HasPrefix(lower, Tun)
                /\ (st.BytesRecv + st.BytesSent) % CounterMod > 0
             THEN <<st.Name>> \o ActiveTun(Tail(stats))
             ELSE ActiveTun(Tail(stats))

\* sort.Strings left out.
SortStringsOff(names) == names

\* sort.Strings
RECURSIVE SortStrings(_)
SortStrings(names) ==
    IF names = <<>> THEN <<>>
    ELSE LET m == CHOOSE i \in 1..Len(names) :
                    \A j \in 1..Len(names) : ~StrLess(names[j], names[i])
         IN  <<names[m]>> \o
             SortStrings(SubSeq(names, 1, m - 1) \o SubSeq(names, m + 1, Len(names)))

collectProxyFromTunInterfaces(query) ==
    IF query.err THEN Disabled
    ELSE LET activeTun == SortStrings(ActiveTun(query.stats))
         IN  IF Len(activeTun) = 0 THEN Disabled
             ELSE [Enabled |-> TRUE, Type |-> "TUN",
                   Host |-> IF Len(activeTun) > 1 THEN activeTun[1] \o Plus
                            ELSE activeTun[1]]

(***************************************************************************)
(* The cascade: collectProxy.                                              *)
(*                                                                         *)
(* Its inputs: the environment, runtime.GOOS, what runCmd returns for      *)
(* "scutil --proxy" within its 500 ms ([err, out]; a timeout is an error), *)
(* and what the counter query returns.                                     *)
(***************************************************************************)
\* collectProxy with the OS query consulted before the environment.
collectProxyScutilFirst(in) ==
    IF /\ in.goos = "darwin"
       /\ ~in.cmd.err
       /\ collectProxyFromScutilOutput(in.cmd.out).Enabled
    THEN collectProxyFromScutilOutput(in.cmd.out)
    ELSE IF collectProxyFromEnv(in.getenv).Enabled
    THEN collectProxyFromEnv(in.getenv)
    ELSE IF in.goos = "darwin" /\ collectProxyFromTunInterfaces(in.tun).Enabled
    THEN collectProxyFromTunInterfaces(in.tun)
    ELSE Disabled

collectProxy(in) ==
    IF collectProxyFromEnv(in.getenv).Enabled
    THEN collectProxyFromEnv(in.getenv)
    ELSE IF in.goos = "darwin"
    THEN IF ~in.cmd.err /\ collectProxyFromScutilOutput(in.cmd.out).Enabled
         THEN collectProxyFromScutilOutput(in.cmd.out)
         ELSE IF collectProxyFromTunInterfaces(in.tun).Enabled
         THEN collectProxyFromTunInterfaces(in.tun)
         ELSE Disabled
    ELSE Disabled

(***************************************************************************)
(* SpecEnv: collectProxyFromEnv on environments with at most MaxEnvSet of  *)
(* the six variables set.                                                  *)
(***************************************************************************)
vBlank == <<" ">>
vSocks ==
    <<"s", "o", "c", "k", "s", "5", ":", "/", "/", "1", "2", "7", ".", "0", ".", "0", ".", "1",
      ":", "7", "8", "9", "0">>
vHttpUser == <<"h", "t", "t", "p", ":", "/", "/", "u", "@", "h", ":", "1", "/", "x">>
vSocksBadPort == <<"S", "O", "C", "K", "S", "5", ":", "/", "/", "h", ":", "x">>
vBare == <<" ", "h", ":", "1", " ">>

EnvValues == {vBlank, vSocks, vHttpUser, vSocksBadPort, vBare}

EnvKeySet == {"https_proxy", "HTTPS_PROXY", "http_proxy", "HTTP_PROXY", "all_proxy", "ALL_PROXY"}

\* os.Getenv over the six keys; an unset variable reads as "".
Environments ==
    {getenv \in [EnvKeySet -> EnvValues \cup {<<>>}] :
        Cardinality({k \in EnvKeySet : getenv[k] # <<>>}) <= MaxEnvSet}

InitEnv ==
    /\ NetInit
    /\ proxyIn \in {[kind |-> "env", getenv |-> getenv] : getenv \in Environments}
    /\ proxyOut = [kind |-> "none"]

RunEnv ==
    /\ proxyOut.kind = "none"
    /\ proxyOut' = [kind |-> "env", status |-> collectProxyFromEnv(proxyIn.getenv)]
    /\ UNCHANGED <<netVars, proxyIn>>

SpecEnv == InitEnv /\ [][RunEnv]_vars

(***************************************************************************)
(* SpecScutil: collectProxyFromScutilOutput on the empty text and on       *)
(* dictionaries of at most MaxLines lines drawn from LinePool, framed as   *)
(* scutil prints them.                                                     *)
(***************************************************************************)
lSocksOn ==
    <<" ", " ", "S", "O", "C", "K", "S", "E", "n", "a", "b", "l", "e", " ", ":", " ", "1">>
lHttpsOn ==
    <<" ", " ", "H", "T", "T", "P", "S", "E", "n", "a", "b", "l", "e", " ", ":", " ", "1">>
lHttpOn == <<" ", " ", "H", "T", "T", "P", "E", "n", "a", "b", "l", "e", " ", ":", " ", "1">>
lPacOn ==
    <<" ", " ", "P", "r", "o", "x", "y", "A", "u", "t", "o", "C", "o", "n", "f", "i", "g", "E",
      "n", "a", "b", "l", "e", " ", ":", " ", "1">>
lWpadOn ==
    <<" ", " ", "P", "r", "o", "x", "y", "A", "u", "t", "o", "D", "i", "s", "c", "o", "v", "e",
      "r", "y", "E", "n", "a", "b", "l", "e", " ", ":", " ", "1">>
lSocksOff ==
    <<" ", " ", "S", "O", "C", "K", "S", "E", "n", "a", "b", "l", "e", " ", ":", " ", "0">>
lHttpsNoSpace ==
    <<" ", " ", "H", "T", "T", "P", "S", "E", "n", "a", "b", "l", "e", ":", " ", "1">>
lHttpProxy ==
    <<" ", " ", "H", "T", "T", "P", "P", "r", "o", "x", "y", " ", ":", " ", "1", "2", "7", ".",
      "0", ".", "0", ".", "1">>
lHttpPort ==
    <<" ", " ", "H", "T", "T", "P", "P", "o", "r", "t", " ", ":", " ", "7", "8", "9", "0">>
lHttpPortWord ==
    <<" ", " ", "H", "T", "T", "P", "P", "o", "r", "t", " ", ":", " ", "a", "b", "c">>
lSocksPort ==
    <<" ", " ", "S", "O", "C", "K", "S", "P", "o", "r", "t", " ", ":", " ", "1", "0", "8", "0">>
lPacUrl ==
    <<" ", " ", "P", "r", "o", "x", "y", "A", "u", "t", "o", "C", "o", "n", "f", "i", "g", "U",
      "R", "L", "S", "t", "r", "i", "n", "g", " ", ":", " ", "h", "t", "t", "p", ":", "/", "/",
      "1", "2", "7", ".", "0", ".", "0", ".", "1", ":", "6", "1", "5", "2", "/", "p", "r", "o",
      "x", "y", ".", "p", "a", "c">>
lHttpsProxy ==
    <<" ", " ", "H", "T", "T", "P", "S", "P", "r", "o", "x", "y", " ", ":", " ", "p", "r", "o",
      "x", "y", ".", "l", "o", "c", "a", "l">>
DictOpen == <<"\n", "<", "d", "i", "c", "t", "i", "o", "n", "a", "r", "y", ">", " ", "{">>
DictClose == <<"\n", "}">>

LinePool ==
    {lSocksOn, lHttpsOn, lHttpOn, lPacOn, lWpadOn, lSocksOff, lHttpsNoSpace,
     lHttpProxy, lHttpPort, lHttpPortWord, lSocksPort, lPacUrl, lHttpsProxy}

RECURSIVE SeqsUpTo(_, _)
SeqsUpTo(S, n) ==
    IF n = 0 THEN {<<>>}
    ELSE LET shorter == SeqsUpTo(S, n - 1)
         IN  shorter \cup {Append(q, x) : q \in {r \in shorter : Len(r) = n - 1}, x \in S}

RECURSIVE JoinLines(_)
JoinLines(lines) ==
    IF lines = <<>> THEN <<>> ELSE Newline \o Head(lines) \o JoinLines(Tail(lines))

\* The text scutil prints for a dictionary with these lines.
Dictionary(lines) == DictOpen \o JoinLines(lines) \o DictClose

ScutilInputs ==
    {[kind |-> "scutil", lines |-> <<>>, out |-> <<>>]}
        \cup {[kind |-> "scutil", lines |-> lines, out |-> Dictionary(lines)] :
                lines \in SeqsUpTo(LinePool, MaxLines)}

InitScutil ==
    /\ NetInit
    /\ proxyIn \in ScutilInputs
    /\ proxyOut = [kind |-> "none"]

RunScutil ==
    /\ proxyOut.kind = "none"
    /\ proxyOut' = [kind |-> "scutil", status |-> collectProxyFromScutilOutput(proxyIn.out)]
    /\ UNCHANGED <<netVars, proxyIn>>

SpecScutil == InitScutil /\ [][RunScutil]_vars

(***************************************************************************)
(* SpecTun: collectProxyFromTunInterfaces on a failed query and on every   *)
(* enumeration of some of TunNames, each with counters of TunCounters.     *)
(***************************************************************************)
TunNames == {utun3, utun1, Tun0, en0}

TunCounters == {c \in AnyCounters : c.BytesSent \in {0, MaxBytes}}

\* The enumerations of the interfaces `names`, without repetition.
RECURSIVE Enumerations(_)
Enumerations(names) ==
    {<<>>} \cup
    UNION {{<<[Name |-> name, BytesRecv |-> c.BytesRecv, BytesSent |-> c.BytesSent]>> \o rest :
                c \in TunCounters, rest \in Enumerations(names \ {name})} :
              name \in names}

TunInputs ==
    {[kind |-> "tun", err |-> TRUE, stats |-> <<>>]}
        \cup {[kind |-> "tun", err |-> FALSE, stats |-> stats] :
                stats \in Enumerations(TunNames)}

InitTun ==
    /\ NetInit
    /\ proxyIn \in TunInputs
    /\ proxyOut = [kind |-> "none"]

RunTun ==
    /\ proxyOut.kind = "none"
    /\ proxyOut' = [kind |-> "tun", status |-> collectProxyFromTunInterfaces(proxyIn)]
    /\ UNCHANGED <<netVars, proxyIn>>

SpecTun == InitTun /\ [][RunTun]_vars

(***************************************************************************)
(* SpecProxy: collectProxy on combinations of what its three sources hold. *)
(***************************************************************************)
NoEnv == [k \in EnvKeySet |-> <<>>]

ProxyEnvs ==
    {NoEnv,
     [NoEnv EXCEPT !["ALL_PROXY"] = vSocks],
     [NoEnv EXCEPT !["https_proxy"] = vBlank]}

ProxyCmds ==
    {[err |-> err, out |-> out] :
        err \in BOOLEAN,
        out \in {<<>>, Dictionary(<<lPacOn, lPacUrl>>), Dictionary(<<lSocksOff, lHttpsNoSpace>>)}}

ProxyTuns ==
    {[err |-> TRUE, stats |-> <<>>],
     [err |-> FALSE, stats |-> <<>>],
     [err |-> FALSE,
      stats |-> <<[Name |-> utun3, BytesRecv |-> MaxBytes, BytesSent |-> 0],
                  [Name |-> utun1, BytesRecv |-> 0, BytesSent |-> MaxBytes]>>],
     [err |-> FALSE, stats |-> <<[Name |-> utun1, BytesRecv |-> 0, BytesSent |-> 0]>>]}

ProxyInputs ==
    {[kind |-> "proxy", getenv |-> getenv, goos |-> goos, cmd |-> cmd, tun |-> tun] :
        getenv \in ProxyEnvs, goos \in {"darwin", "linux"}, cmd \in ProxyCmds, tun \in ProxyTuns}

InitProxy ==
    /\ NetInit
    /\ proxyIn \in ProxyInputs
    /\ proxyOut = [kind |-> "none"]

RunProxy ==
    /\ proxyOut.kind = "none"
    /\ proxyOut' = [kind |-> "proxy", status |-> collectProxy(proxyIn)]
    /\ UNCHANGED <<netVars, proxyIn>>

SpecProxy == InitProxy /\ [][RunProxy]_vars

(***************************************************************************)
(* Claims about the rate engine, checked under Spec.                       *)
(***************************************************************************)
Max0(n) == IF n < 0 THEN 0 ELSE n

\* max(0, (current - previous) / 1,048,576 / elapsedSeconds), with elapsedSeconds
\* now minus the stored timestamp, or 1 when that is not positive.
ExpectedRate(cur, prev, now, last) ==
    [num |-> Max0(cur - prev),
     den |-> BytesPerMB * (IF now - last <= 0 THEN 1 ELSE now - last)]

ResultNames == {netRet.result[i].Name : i \in 1..Len(netRet.result)}

\* C1: in every non-warm-up tick, each reported interface (not noise, present in
\* the stored and in the current snapshot) has receive and transmit rate
\* max(0, (current - previous) / 1,048,576 / elapsed); a counter that regressed
\* is reported at rate 0.
C1_RateIsClampedDelta ==
    netCall.kind = "tick" =>
        \A i \in 1..Len(netRet.result) :
            LET r == netRet.result[i]
                cur == netCall.stats[r.Name]
                prev == netCall.prevNet0[r.Name]
            IN  /\ r.RxRateMBs = ExpectedRate(cur.BytesRecv, prev.BytesRecv,
                                              netCall.now, netCall.lastNetAt0)
                /\ r.TxRateMBs = ExpectedRate(cur.BytesSent, prev.BytesSent,
                                              netCall.now, netCall.lastNetAt0)

\* C2: an interface is reported in a tick only if it is in that tick's snapshot
\* and in the snapshot of the immediately preceding successful tick.
C2_ReportedOnlyIfInBothSnapshots ==
    netCall.kind = "tick" =>
        \A name \in ResultNames :
            /\ name \in DOMAIN netCall.stats
            /\ name \in DOMAIN netCall.prevOkStats

\* C3: the first successful call returns an empty result and no error whatever
\* the snapshot and the timestamp, stores both as the baseline and pushes
\* nothing to the trend buffers; every later successful call is a tick against
\* the stored baseline.
C3_FirstCallIsWarmup ==
    netCall.kind \in {"warmup", "tick"} =>
        IF netCall.okCalls = 1
        THEN /\ netCall.kind = "warmup"
             /\ netRet = [result |-> <<>>, err |-> FALSE]
             /\ prevNet = netCall.stats
             /\ lastNetAt = netCall.now
             /\ rxHistoryBuf = <<>>
             /\ txHistoryBuf = <<>>
        ELSE /\ netCall.kind = "tick"
             /\ netCall.lastNetAt0 # 0
             /\ \A name \in DOMAIN netCall.prevOkStats :
                    /\ name \in DOMAIN netCall.prevNet0
                    /\ netCall.prevNet0[name] = netCall.prevOkStats[name]

\* A second successful call that reports an interface against the baseline.
C3_Witness ==
    /\ netCall.kind = "tick"
    /\ netCall.prevKind = "warmup"
    /\ netRet.result # <<>>

\* C10: collectNetwork returns an error exactly when the counter source fails
\* (never for a non-positive elapsed time, a missing interface or a regressed
\* counter); a failed call returns no result and leaves the stored snapshot,
\* the stored timestamp and the trend buffers as they were, so the successful
\* call after it runs against the last stored snapshot, or is the warm-up if
\* none was stored.
C10_OnlySourceFailureIsAnError ==
    [][ /\ netRet'.err <=> netCall'.kind = "fail"
        /\ netRet'.err =>
              /\ netRet'.result = <<>>
              /\ UNCHANGED <<lastNetAt, prevNet, rxHistoryBuf, txHistoryBuf>>
        /\ (netCall'.kind \in {"warmup", "tick"} /\ netCall.kind = "fail") =>
              /\ netCall'.prevNet0 = netCall.prevNet0
              /\ netCall'.lastNetAt0 = netCall.lastNetAt0
              /\ netCall'.kind = "warmup" <=> netCall.okCalls = 0
      ]_vars

\* A tick right after a failed call, with a non-positive elapsed time and a
\* regressed counter, reporting an interface.
C10_Witness ==
    /\ netCall.kind = "tick"
    /\ netCall.prevKind = "fail"
    /\ netCall.now <= netCall.lastNetAt0
    /\ \E name \in ResultNames :
          netCall.stats[name].BytesRecv < netCall.prevNet0[name].BytesRecv

(***************************************************************************)
(* Claims about ranking and filtering, checked under SpecTop and SpecNoise.*)
(***************************************************************************)
\* receive rate + transmit rate of an entry, over the tick's common denominator.
RxPlusTx(r) == r.RxRateMBs.num + r.TxRateMBs.num

\* The entries the tick computed for the interfaces that qualify (not noise,
\* in the stored and in the current snapshot) and that the result leaves out.
LeftOut ==
    {StatusOf(name, netCall.stats[name], netCall.prevNet0[name],
              Elapsed(netCall.now, netCall.lastNetAt0)) :
        name \in {n \in DOMAIN netCall.stats \cap DOMAIN netCall.prevNet0 :
                     ~isNoiseInterface(n) /\ n \notin ResultNames}}

\* C4: the returned sequence has at most 3 entries, is ordered by non-increasing
\* receive rate + transmit rate, and no qualifying interface left out has a
\* combined rate strictly greater than one that was kept.
C4_TopThreeByCombinedRate ==
    /\ Len(netRet.result) <= 3
    /\ \A i, j \in 1..Len(netRet.result) :
          i < j => RxPlusTx(netRet.result[i]) >= RxPlusTx(netRet.result[j])
    /\ netCall.kind = "tick" =>
          \A out \in LeftOut : \A i \in 1..Len(netRet.result) :
              RxPlusTx(out) <= RxPlusTx(netRet.result[i])

\* Four interfaces qualified, three were kept, the first faster than the second,
\* one of the first two ranked by its transmit rate, and a slower one was cut.
C4_Witness ==
    /\ netCall.kind = "tick"
    /\ Len(netRet.result) = 3
    /\ LeftOut # {}
    /\ RxPlusTx(netRet.result[1]) > RxPlusTx(netRet.result[2])
    /\ \E i \in 1..2 : netRet.result[i].TxRateMBs.num > 0
    /\ \A out \in LeftOut : RxPlusTx(out) < RxPlusTx(netRet.result[3])

\* A name some denylist prefix matches once both are compared without case.
DenyPrefixes == {noiseList[i] : i \in 1..Len(noiseList)}

SameLetter(c, d) == ToLower(<<c>>) = ToLower(<<d>>)

MatchesDenylist(name) ==
    \E prefix \in DenyPrefixes :
        /\ Len(prefix) <= Len(name)
        /\ \A k \in 1..Len(prefix) : SameLetter(name[k], prefix[k])

\* C5: no entry of any returned result has a name matching the denylist (lo,
\* awdl, utun, llw, bridge, gif, stf, xhc, anpi, ap) as a case-insensitive
\* prefix, whatever its counters or rate.
C5_NoNoiseInResult ==
    \A name \in ResultNames : ~MatchesDenylist(name)

\* A tick in which noise interfaces moved bytes, one under an upper-case name,
\* while the only interface reported is the one that is not noise.
C5_Witness ==
    /\ netCall.kind = "tick"
    /\ ResultNames = {Tun0}
    /\ \E name \in {Lo0, AP1} :
          \/ netCall.stats[name].BytesRecv # netCall.prevNet0[name].BytesRecv
          \/ netCall.stats[name].BytesSent # netCall.prevNet0[name].BytesSent
    /\ utun1 \in DOMAIN netCall.stats \cap DOMAIN netCall.prevNet0

(***************************************************************************)
(* Claims about the environment detector, checked under SpecEnv.           *)
(***************************************************************************)
KeyOrder ==
    <<"https_proxy", "HTTPS_PROXY", "http_proxy", "HTTP_PROXY", "all_proxy", "ALL_PROXY">>

hostLocal7890 == <<"1", "2", "7", ".", "0", ".", "0", ".", "1", ":", "7", "8", "9", "0">>
hostH1 == <<"h", ":", "1">>
rawSocksBadPort == <<"S", "O", "C", "K", "S", "5", ":", "/", "/", "h", ":", "x">>

\* What each value of EnvValues yields when it is the one that decides: the
\* type by its scheme prefix, the host extracted from it, or the trimmed value
\* itself where no host can be extracted.
ExpectedFromValue(val) ==
    CASE val = vSocks -> [Enabled |-> TRUE, Type |-> "SOCKS", Host |-> hostLocal7890]
      [] val = vHttpUser -> [Enabled |-> TRUE, Type |-> "HTTP", Host |-> hostH1]
      [] val = vSocksBadPort -> [Enabled |-> TRUE, Type |-> "SOCKS", Host |-> rawSocksBadPort]
      [] val = vBare -> [Enabled |-> TRUE, Type |-> "HTTP", Host |-> hostH1]
      [] val = vBlank -> [Enabled |-> TRUE, Type |-> "HTTP", Host |-> <<>>]

ExpectedFromFirst(getenv, decides) ==
    IF decides = {} THEN Disabled
    ELSE LET first == CHOOSE i \in decides : \A j \in decides : i <= j
         IN  ExpectedFromValue(getenv[KeyOrder[first]])

IsBlank(val) == \A i \in 1..Len(val) : IsSpace(val[i])

\* C7 as stated: the first non-empty value in the order https_proxy,
\* HTTPS_PROXY, http_proxy, HTTP_PROXY, all_proxy, ALL_PROXY alone determines
\* the result; with no non-empty value the result is disabled.
C7_FirstNonEmptyValueDecides ==
    proxyOut.kind = "env" =>
        proxyOut.status =
            ExpectedFromFirst(proxyIn.getenv,
                {i \in 1..Len(KeyOrder) : proxyIn.getenv[KeyOrder[i]] # <<>>})

\* C7 amended: the first value that is non-empty after trimming white space
\* decides (a value of white space only is passed over like an unset one);
\* with no such value the result is disabled.
C7_FirstNonBlankValueDecides ==
    proxyOut.kind = "env" =>
        proxyOut.status =
            ExpectedFromFirst(proxyIn.getenv,
                {i \in 1..Len(KeyOrder) : ~IsBlank(proxyIn.getenv[KeyOrder[i]])})

\* ALL_PROXY=socks5://127.0.0.1:7890 behind a blank https_proxy, nothing else
\* set: {enabled, SOCKS, "127.0.0.1:7890"}.
C7_Witness ==
    /\ proxyOut.kind = "env"
    /\ proxyIn.getenv["ALL_PROXY"] = vSocks
    /\ proxyIn.getenv["https_proxy"] = vBlank
    /\ \A k \in EnvKeySet \ {"ALL_PROXY", "https_proxy"} : proxyIn.getenv[k] = <<>>
    /\ proxyOut.status = [Enabled |-> TRUE, Type |-> "SOCKS", Host |-> hostLocal7890]

(***************************************************************************)
(* Claims about the OS-query parser, checked under SpecScutil.             *)
(***************************************************************************)
valLocal == <<"1", "2", "7", ".", "0", ".", "0", ".", "1">>
val7890 == <<"7", "8", "9", "0">>
valAbc == <<"a", "b", "c">>
val1080 == <<"1", "0", "8", "0">>
valPacUrl ==
    <<"h", "t", "t", "p", ":", "/", "/", "1", "2", "7", ".", "0", ".", "0", ".", "1", ":", "6",
      "1", "5", "2", "/", "p", "r", "o", "x", "y", ".", "p", "a", "c">>
valProxyLocal == <<"p", "r", "o", "x", "y", ".", "l", "o", "c", "a", "l">>
valZero == <<"0">>
hostLocal6152 == <<"1", "2", "7", ".", "0", ".", "0", ".", "1", ":", "6", "1", "5", "2">>

\* The key and the value each line of LinePool states, read off the line;
\* "HTTPSEnable: 1" lacks the space before its colon and states nothing.
PoolEntry(line) ==
    CASE line = lSocksOn -> [key |-> "SOCKSEnable", val |-> One]
      [] line = lHttpsOn -> [key |-> "HTTPSEnable", val |-> One]
      [] line = lHttpOn -> [key |-> "HTTPEnable", val |-> One]
      [] line = lPacOn -> [key |-> "ProxyAutoConfigEnable", val |-> One]
      [] line = lWpadOn -> [key |-> "ProxyAutoDiscoveryEnable", val |-> One]
      [] line = lSocksOff -> [key |-> "SOCKSEnable", val |-> valZero]
      [] line = lHttpsNoSpace -> [key |-> "", val |-> <<>>]
      [] line = lHttpProxy -> [key |-> "HTTPProxy", val |-> valLocal]
      [] line = lHttpPort -> [key |-> "HTTPPort", val |-> val7890]
      [] line = lHttpPortWord -> [key |-> "HTTPPort", val |-> valAbc]
      [] line = lSocksPort -> [key |-> "SOCKSPort", val |-> val1080]
      [] line = lPacUrl -> [key |-> "ProxyAutoConfigURLString", val |-> valPacUrl]
      [] line = lHttpsProxy -> [key |-> "HTTPSProxy", val |-> valProxyLocal]

\* The value the dictionary gives a key: that of the first line stating it, ""
\* if none does.
Stated(lines, key) ==
    LET at == {i \in 1..Len(lines) : PoolEntry(lines[i]).key = key}
    IN  IF at = {} THEN <<>>
        ELSE PoolEntry(lines[CHOOSE i \in at : \A j \in at : i <= j]).val

FlagOrder ==
    << [flag |-> "SOCKSEnable", type |-> "SOCKS", host |-> "SOCKSProxy", port |-> "SOCKSPort"],
       [flag |-> "HTTPSEnable", type |-> "HTTPS", host |-> "HTTPSProxy", port |-> "HTTPSPort"],
       [flag |-> "HTTPEnable", type |-> "HTTP", host |-> "HTTPProxy", port |-> "HTTPPort"],
       [flag |-> "ProxyAutoConfigEnable", type |-> "PAC", host |-> "", port |-> ""],
       [flag |-> "ProxyAutoDiscoveryEnable", type |-> "WPAD", host |-> "", port |-> ""] >>

IsNumeric(s) == s # <<>> /\ \A i \in 1..Len(s) : IsDigit(s[i])

\* The host the claim gives an enabled flag.
HostAsClaimed(lines, f, got) ==
    LET host == Stated(lines, f.host)
        port == Stated(lines, f.port)
    IN  CASE f.type = "WPAD" -> got = AutoDiscovery
          [] f.type = "PAC" ->
                got = IF Stated(lines, "ProxyAutoConfigURLString") = valPacUrl
                      THEN hostLocal6152 ELSE PacHost
          [] OTHER ->
                /\ (host # <<>> /\ IsNumeric(port)) => got = host \o Colon \o port
                /\ (host # <<>> /\ ~IsNumeric(port)) => got = host
                /\ (host = <<>> /\ port = <<>>) => got = SystemProxy

\* C8: the type reported is that of the first enable flag with value "1" in
\* the order SOCKS, HTTPS, HTTP, PAC, WPAD; the host is proxyHost:proxyPort for
\* SOCKS, HTTPS and HTTP (the port left out if absent or not numeric, "System
\* Proxy" if neither host nor port is there), the host of the configuration
\* URL for PAC ("PAC" if there is none), "Auto Discovery" for WPAD; a text with
\* no flag equal to "1" (empty, malformed, partial) yields disabled.
C8_FirstEnabledFlagDecides ==
    proxyOut.kind = "scutil" =>
        LET lines == proxyIn.lines
            on == {i \in 1..Len(FlagOrder) : Stated(lines, FlagOrder[i].flag) = One}
        IN  IF on = {} THEN proxyOut.status = Disabled
            ELSE LET f == FlagOrder[CHOOSE i \in on : \A j \in on : i <= j]
                 IN  /\ proxyOut.status.Enabled
                     /\ proxyOut.status.Type = f.type
                     /\ HostAsClaimed(lines, f, proxyOut.status.Host)

\* HTTPEnable and HTTPProxy below an enabled auto-discovery: HTTP wins, with
\* host 127.0.0.1 and no port.
C8_Witness ==
    /\ proxyOut.kind = "scutil"
    /\ proxyIn.lines = <<lWpadOn, lHttpOn, lHttpProxy>>
    /\ proxyOut.status = [Enabled |-> TRUE, Type |-> "HTTP", Host |-> valLocal]

(***************************************************************************)
(* Claims about the tunnel heuristic, checked under SpecTun.               *)
(***************************************************************************)
\* The name starts with "utun" or "tun", compared without case.
StartsLike(name, word) ==
    /\ Len(word) <= Len(name)
    /\ \A k \in 1..Len(word) : SameLetter(name[k], word[k])

IsTunnelName(name) == StartsLike(name, Utun) \/ StartsLike(name, Tun)

\* The tunnels with nonzero cumulative traffic among the enumerated interfaces.
ActiveTunnels(stats) ==
    {stats[i].Name : i \in {k \in 1..Len(stats) :
        /\ IsTunnelName(stats[k].Name)
        /\ stats[k].BytesRecv > 0 \/ stats[k].BytesSent > 0}}

\* C9: the heuristic affirms exactly when some interface named utun... or
\* tun... (case-insensitive) has nonzero cumulative traffic; the result is
\* then TUN with host the lexicographically smallest such name, followed by
\* "+" exactly when more than one is active, whatever the enumeration order;
\* a failed counter query yields disabled.
C9_SmallestActiveTunnel ==
    proxyOut.kind = "tun" =>
        LET active == ActiveTunnels(proxyIn.stats)
        IN  IF proxyIn.err \/ active = {} THEN proxyOut.status = Disabled
            ELSE LET least == CHOOSE n \in active : \A m \in active : ~StrLess(m, n)
                 IN  proxyOut.status =
                        [Enabled |-> TRUE, Type |-> "TUN",
                         Host |-> IF Cardinality(active) > 1 THEN least \o Plus ELSE least]

\* utun3 enumerated before utun1, both with traffic: host "utun1+".
C9_Witness ==
    /\ proxyOut.kind = "tun"
    /\ Len(proxyIn.stats) = 2
    /\ proxyIn.stats[1].Name = utun3 /\ proxyIn.stats[1].BytesRecv > 0
    /\ proxyIn.stats[2].Name = utun1 /\ proxyIn.stats[2].BytesSent > 0
    /\ proxyOut.status = [Enabled |-> TRUE, Type |-> "TUN", Host |-> utun1 \o Plus]

(***************************************************************************)
(* Claims about the cascade, checked under SpecProxy.                      *)
(***************************************************************************)
\* C6: collectProxy returns the result of the first affirming detector in the
\* order environment, OS query, tunnel heuristic, and merges nothing: an
\* affirming environment wins whatever the others hold; an OS query that
\* fails, times out or does not affirm gives way to the tunnel heuristic; off
\* the gated platform only the environment is consulted; with no detector
\* affirming the result is disabled.
C6_FirstAffirmingDetectorWins ==
    proxyOut.kind = "proxy" =>
        LET env == collectProxyFromEnv(proxyIn.getenv)
            os == collectProxyFromScutilOutput(proxyIn.cmd.out)
            tun == collectProxyFromTunInterfaces(proxyIn.tun)
            gated == proxyIn.goos = "darwin"
            osAffirms == gated /\ ~proxyIn.cmd.err /\ os.Enabled
            tunAffirms == gated /\ tun.Enabled
            got == proxyOut.status
        IN  /\ env.Enabled => got = env
            /\ (~env.Enabled /\ osAffirms) => got = os
            /\ (~env.Enabled /\ ~osAffirms /\ tunAffirms) => got = tun
            /\ (~env.Enabled /\ ~osAffirms /\ ~tunAffirms) => got = Disabled
            /\ (~env.Enabled /\ ~gated) => got = Disabled

\* On the gated platform the environment, the OS query and the tunnel
\* heuristic would all affirm, and the environment's result is returned.
C6_Witness ==
    /\ proxyOut.kind = "proxy"
    /\ proxyIn.goos = "darwin"
    /\ ~proxyIn.cmd.err
    /\ collectProxyFromScutilOutput(proxyIn.cmd.out).Type = "PAC"
    /\ collectProxyFromTunInterfaces(proxyIn.tun).Type = "TUN"
    /\ proxyOut.status = [Enabled |-> TRUE, Type |-> "SOCKS", Host |-> hostLocal7890]

====
